---- MODULE Spec2Model ----
(***************************************************************************)
(* Cycle-accurate model of baseboard.py: the synchronous components Timer, *)
(* Debounce, Adc2Degrees, Binary2Bcd, SevenSegDriver and SPICtrl, and the *)
(* hookup of all but Debounce in BaseboardDemo.                            *)
(*                                                                         *)
(* One step of every specification is one rising edge of the "sync" clock. *)
(* A state holds the registers (m.d.sync targets) together with the levels *)
(* of the component's inputs during the coming tick; combinational signals *)
(* (m.d.comb targets) are operators over the state.  Within one domain the *)
(* last assignment to a signal (or to a slice of it) wins, which is how    *)
(* the statements of each elaborate() are ordered below.                   *)
(*                                                                         *)
(* The variable obs holds observations of the run (history), never read by *)
(* the modelled hardware.                                                  *)
(***************************************************************************)
EXTENDS Integers, Sequences, FiniteSets

VARIABLES timer, degrees, bin2bcd, sevenseg, spiadc, demo, debounce, obs

vars == <<timer, degrees, bin2bcd, sevenseg, spiadc, demo, debounce, obs>>

(***************************************************************************)
(* Bounds of the model and constants of the program.                       *)
(***************************************************************************)
\* int(period * clk_freq) of the acquisition Timer (250000 as shipped).
AcqN == 3100
\* int(period * clk_freq) of the display refresh Timer (208333 as shipped).
RefreshN == 25
\* width of a stand-alone SPICtrl (the constructor's parameter).
Width == 5
\* width of the SPICtrl that BaseboardDemo instantiates.
DemoWidth == 24
\* number of bits Binary2Bcd converts (din is Signal(10), cnt reloads to 10).
BcdWidth == 10
\* reload value of the SPICtrl clock divider.
DivReload == 63
\* number of ticks with en high in a run of the free-running converter.
MaxEn == 3
\* the count at which Debounce flips (cnt is Signal(16)).
DebounceMax == 65535
\* offset and shift of Adc2Degrees.
DegOffset == 82
DegShift == 2

(***************************************************************************)
(* Fixed-width values: a Signal of w bits holds a number in 0 .. 2^w - 1.  *)
(***************************************************************************)
Pow2(n) == 2 ^ n

Trunc(x, w) == x % Pow2(w)

Bit(x, i) == (x \div Pow2(i)) % 2

\* x[lo : lo + n]
Slice(x, lo, n) == (x \div Pow2(lo)) % Pow2(n)

\* amaranth's bits_for(n), the width of Signal(range(0, n + 1)).
RECURSIVE BitsFor(_)
BitsFor(n) == IF n < 2 THEN 1 ELSE 1 + BitsFor(n \div 2)

\* the width of Signal(range(0, stop)).
RangeWidth(stop) == BitsFor(stop - 1)

Not(b) == 1 - b

(***************************************************************************)
(* Timer                                                                   *)
(***************************************************************************)
\* cnt = Signal(range(0, n), reset=n): the reset value is cut to the width.
TimerReload(n) == Trunc(n, RangeWidth(n))

TimerReset(n) == [cnt |-> TimerReload(n), stb |-> 0]

\* the unconditional stb.eq(0), cnt.eq(cnt - 1), overridden when cnt == 0.
TimerNext(t, n) ==
    IF t.cnt = 0
    THEN [cnt |-> TimerReload(n), stb |-> 1]
    ELSE [cnt |-> Trunc(t.cnt - 1, RangeWidth(n)), stb |-> 0]

(***************************************************************************)
(* Debounce                                                                *)
(***************************************************************************)
\* FFSynchronizer(self.button, button_sync): two flip-flops in a row, the
\* second one driving button_sync.
DebounceReset ==
    [button |-> 0, stage0 |-> 0, button_sync |-> 0, last_state |-> 0, cnt |-> 0]

\* out.eq(last_state)
DebounceOut(d) == d.last_state

\* down_stb.eq((cnt == 65535) & last_state == 1): & binds tighter than ==,
\* so this compares (cnt == 65535) & last_state with 1.
DownStb(d) ==
    IF (IF d.cnt = DebounceMax THEN 1 ELSE 0) * d.last_state = 1 THEN 1 ELSE 0

\* up_stb.eq((cnt == 65535) & last_state == 0): likewise, the comparison of
\* (cnt == 65535) & last_state with 0.
UpStb(d) ==
    IF (IF d.cnt = DebounceMax THEN 1 ELSE 0) * d.last_state = 0 THEN 1 ELSE 0

\* mutant: cnt lacks its default eq(0) and keeps its value on a match.
DebounceNextNoClear(d) ==
    LET differs == d.button_sync # d.last_state
    IN  [d EXCEPT !.stage0 = d.button,
                  !.button_sync = d.stage0,
                  !.cnt = IF differs THEN Trunc(d.cnt + 1, 16) ELSE d.cnt,
                  !.last_state = IF differs /\ d.cnt = DebounceMax
                                 THEN Not(d.last_state)
                                 ELSE d.last_state]

\* cnt.eq(0), overridden by cnt.eq(cnt + 1) while button_sync != last_state;
\* last_state.eq(~last_state) when cnt == 65535 as well; and the two stages
\* of the synchronizer.  button keeps its level.
DebounceNext(d) ==
    LET differs == d.button_sync # d.last_state
    IN  [d EXCEPT !.stage0 = d.button,
                  !.button_sync = d.stage0,
                  !.cnt = IF differs THEN Trunc(d.cnt + 1, 16) ELSE 0,
                  !.last_state = IF differs /\ d.cnt = DebounceMax
                                 THEN Not(d.last_state)
                                 ELSE d.last_state]

(***************************************************************************)
(* Adc2Degrees                                                             *)
(***************************************************************************)
\* (adc - 82) >> 2 assigned to the 10-bit degrees.  adc (10 bits) and the
\* constant (7 bits) are unsigned, so the difference is an unsigned value of
\* 11 bits that wraps below zero, and the shift is logical.
Adc2Degrees(adc) ==
    Trunc(Trunc(adc - DegOffset, 11) \div Pow2(DegShift), 10)

(***************************************************************************)
(* Binary2Bcd                                                              *)
(***************************************************************************)
Nibbles == {0, 1, 2, 3}

Nibble(x, k) == Slice(x, 4 * k, 4)

\* mutant: the correction threshold off by one.
NeedsAdd3From6(x, k) == Nibble(x, k) >= 6

\* tmp_out[i:i + 4] >= 5
NeedsAdd3(x, k) == Nibble(x, k) >= 5

\* add3_logic: the OR over the four nibbles.
Add3(x) == \E k \in Nibbles : NeedsAdd3(x, k)

\* x with nibble k replaced by v (an assignment to the slice x[4k:4k+4]).
SetNibble(x, k, v) == x - Nibble(x, k) * Pow2(4 * k) + Trunc(v, 4) * Pow2(4 * k)

\* The for loop of the add-3 branch applied on top of the pending value
\* `pending` of tmp_out: each nibble of the current value that is >= 5 is
\* assigned current + 3, the other nibbles keep the pending value.
RECURSIVE Add3Nibbles(_, _, _)
Add3Nibbles(cur, pending, k) ==
    IF k = 4 THEN pending
    ELSE Add3Nibbles(cur,
                     IF NeedsAdd3(cur, k)
                     THEN SetNibble(pending, k, Nibble(cur, k) + 3)
                     ELSE pending,
                     k + 1)

\* Cat(0, tmp[0:-1])
ShiftTmp(tmp) == Trunc(2 * tmp, BcdWidth)

\* Cat(tmp[-1], tmp_out[0:-1])
ShiftTmpOut(tmp, tmp_out) == Trunc(2 * tmp_out, 16) + Bit(tmp, BcdWidth - 1)

Binary2BcdReset ==
    [en |-> 0, din |-> 0, dout |-> 0, done |-> 1, add_done |-> 0,
     tmp |-> 0, tmp_out |-> 0, cnt |-> BcdWidth]

\* with m.If(self.en): the restart assignments.
BcdOnEn(b) ==
    IF b.en = 1
    THEN [b EXCEPT !.done = 0, !.tmp = b.din, !.tmp_out = 0,
                   !.cnt = BcdWidth, !.add_done = 0]
    ELSE b

\* mutant: done is set when cnt, not cnt - 1, is 0.
BcdOnBusyLate(b, p) ==
    IF b.done = 0
    THEN IF (~Add3(b.tmp_out)) \/ b.add_done = 1
         THEN [p EXCEPT !.tmp = ShiftTmp(b.tmp),
                        !.tmp_out = ShiftTmpOut(b.tmp, b.tmp_out),
                        !.add_done = 0,
                        !.cnt = Trunc(b.cnt - 1, 4),
                        !.done = IF b.cnt = 0 THEN 1 ELSE p.done]
         ELSE [p EXCEPT !.add_done = 1,
                        !.tmp_out = Add3Nibbles(b.tmp_out, p.tmp_out, 0)]
    ELSE [p EXCEPT !.dout = b.tmp_out]

\* mutant: dout follows tmp_out on every tick.
BcdOnBusyDoutAlways(b, p) ==
    IF b.done = 0
    THEN IF (~Add3(b.tmp_out)) \/ b.add_done = 1
         THEN [p EXCEPT !.tmp = ShiftTmp(b.tmp),
                        !.tmp_out = ShiftTmpOut(b.tmp, b.tmp_out),
                        !.add_done = 0,
                        !.cnt = Trunc(b.cnt - 1, 4),
                        !.done = IF Trunc(b.cnt - 1, 5) = 0 THEN 1 ELSE p.done,
                        !.dout = b.tmp_out]
         ELSE [p EXCEPT !.add_done = 1,
                        !.tmp_out = Add3Nibbles(b.tmp_out, p.tmp_out, 0),
                        !.dout = b.tmp_out]
    ELSE [p EXCEPT !.dout = b.tmp_out]

\* with m.If(~done): ... with m.Else(): ..., applied after BcdOnEn; b is the
\* current state, p the pending next state.
BcdOnBusy(b, p) ==
    IF b.done = 0
    THEN IF (~Add3(b.tmp_out)) \/ b.add_done = 1
         THEN [p EXCEPT !.tmp = ShiftTmp(b.tmp),
                        !.tmp_out = ShiftTmpOut(b.tmp, b.tmp_out),
                        !.add_done = 0,
                        !.cnt = Trunc(b.cnt - 1, 4),
                        !.done = IF Trunc(b.cnt - 1, 5) = 0 THEN 1 ELSE p.done]
         ELSE [p EXCEPT !.add_done = 1,
                        !.tmp_out = Add3Nibbles(b.tmp_out, p.tmp_out, 0)]
    ELSE [p EXCEPT !.dout = b.tmp_out]

\* the registers of Binary2Bcd after one tick; en and din keep their levels.
Binary2BcdNext(b) == BcdOnBusy(b, BcdOnEn(b))

(***************************************************************************)
(* SevenSegDriver                                                          *)
(***************************************************************************)
\* the patterns enumerated by the Switch on curr_digit, case 0 first.
SegPatterns ==
    << 252,  96, 218, 242, 102, 182, 190, 224,
       254, 246, 238,  62, 156, 122, 158, 142 >>

SevenSegReset ==
    [timer |-> TimerReset(RefreshN), din |-> 0, digit_sel |-> 0]

\* the "Switch Logic" loop, i = 0, 4, 8, 12 in order: curr_digit is driven by
\* the last branch whose condition holds, and is 0 when none does.
RECURSIVE CurrDigitFrom(_, _, _)
CurrDigitFrom(s, k, acc) ==
    IF k = 4 THEN acc
    ELSE CurrDigitFrom(s, k + 1,
                       IF s.digit_sel = k THEN Slice(s.din, 4 * k, 4) ELSE acc)

CurrDigit(s) == CurrDigitFrom(s, 0, 0)

\* mutant: the selected line driven high, the others low.
EnableActiveHigh(s) == Pow2(s.digit_sel)

\* enable = Signal(4, reset=15) with enable[i // 4].eq(0) in the same loop.
RECURSIVE EnableFrom(_, _, _)

EnableFrom(s, k, acc) ==
    IF k = 4 THEN acc
    ELSE EnableFrom(s, k + 1,
                    IF s.digit_sel = k THEN acc - Bit(acc, k) * Pow2(k) ELSE acc)

Enable(s) == EnableFrom(s, 0, 15)

\* mutant: the table one entry short.
SegDoutShort(s) ==
    IF \E i \in 1 .. Len(SegPatterns) - 1 : i - 1 = CurrDigit(s)
    THEN SegPatterns[CurrDigit(s) + 1]
    ELSE 0

\* with m.Switch(curr_digit): the case that matches drives dout, which is 0
\* (its reset value) when no case matches.
SegDout(s) ==
    IF \E i \in 1 .. Len(SegPatterns) : i - 1 = CurrDigit(s)
    THEN SegPatterns[CurrDigit(s) + 1]
    ELSE 0

\* getattr(self.pads, p).eq(dout[i]) over reversed(("a", ..., "g", "dp")).
SegPads(s) ==
    [dp |-> Bit(SegDout(s), 0), g |-> Bit(SegDout(s), 1),
     f  |-> Bit(SegDout(s), 2), e |-> Bit(SegDout(s), 3),
     d  |-> Bit(SegDout(s), 4), c |-> Bit(SegDout(s), 5),
     b  |-> Bit(SegDout(s), 6), a |-> Bit(SegDout(s), 7)]

\* with m.If(self.timer.stb): digit_sel.eq(digit_sel + 1), and the submodule
\* timer's own tick.
SevenSegNext(s) ==
    [s EXCEPT !.timer = TimerNext(s.timer, RefreshN),
              !.digit_sel = IF s.timer.stb = 1
                            THEN Trunc(s.digit_sel + 1, 2)
                            ELSE s.digit_sel]

(***************************************************************************)
(* SPICtrl                                                                 *)
(***************************************************************************)
\* edge_cnt = Signal(range(0, width * 2), reset=width * 2)
EdgeCntWidth(w) == RangeWidth(2 * w)

EdgeCntReload(w) == Trunc(2 * w, EdgeCntWidth(w))

SPICtrlReset(w) ==
    [en |-> 0, din |-> 0, cipo |-> 0,
     fsm |-> "IDLE", clk |-> 0, cs |-> 0, div |-> DivReload,
     edge_cnt |-> EdgeCntReload(w), in_prog |-> 0,
     tmp |-> 0, in_bit |-> 0, sclk_prev |-> 0]

\* combinational outputs
SclkPedge(s) == IF s.clk = 1 /\ s.sclk_prev = 0 THEN 1 ELSE 0

SclkNedge(s) == IF s.clk = 0 /\ s.sclk_prev = 1 THEN 1 ELSE 0

SpiDone(s) == Not(s.in_prog)

SpiDout(s) == s.tmp

\* mutant: the bottom bit of tmp drives copi.
CopiLsb(s, w) == Bit(s.tmp, 0)

\* copi.eq(tmp[-1])
Copi(s, w) == Bit(s.tmp, w - 1)

\* with m.State("IDLE")
SpiIdle(s, w) ==
    LET p == [s EXCEPT !.clk = 0, !.cs = 0, !.div = DivReload,
                       !.edge_cnt = EdgeCntReload(w)]
    IN  IF s.en = 1
        THEN [p EXCEPT !.tmp = s.din, !.cs = 1, !.fsm = "XFER"]
        ELSE p

\* mutant: XFER accepts en as IDLE does.
SpiXferRestarts(s, w) ==
    LET p == [s EXCEPT !.div = Trunc(s.div - 1, 6)]
        q == IF s.div = 0
             THEN [p EXCEPT !.edge_cnt = Trunc(s.edge_cnt - 1, EdgeCntWidth(w)),
                            !.clk = Not(s.clk)]
             ELSE p
        r == IF s.edge_cnt = 0 THEN [q EXCEPT !.fsm = "IDLE"] ELSE q
    IN  IF s.en = 1
        THEN [r EXCEPT !.tmp = s.din, !.div = DivReload,
                       !.edge_cnt = EdgeCntReload(w), !.fsm = "XFER"]
        ELSE r

\* mutant: XFER is left one edge early.
SpiXferShort(s, w) ==
    LET p == [s EXCEPT !.div = Trunc(s.div - 1, 6)]
        q == IF s.div = 0
             THEN [p EXCEPT !.edge_cnt = Trunc(s.edge_cnt - 1, EdgeCntWidth(w)),
                            !.clk = Not(s.clk)]
             ELSE p
    IN  IF s.edge_cnt = 1 THEN [q EXCEPT !.fsm = "IDLE"] ELSE q

\* with m.State("XFER")
SpiXfer(s, w) ==
    LET p == [s EXCEPT !.div = Trunc(s.div - 1, 6)]
        q == IF s.div = 0
             THEN [p EXCEPT !.edge_cnt = Trunc(s.edge_cnt - 1, EdgeCntWidth(w)),
                            !.clk = Not(s.clk)]
             ELSE p
    IN  IF s.edge_cnt = 0 THEN [q EXCEPT !.fsm = "IDLE"] ELSE q

\* with m.FSM()
SpiFsm(s, w) == IF s.fsm = "IDLE" THEN SpiIdle(s, w) ELSE SpiXfer(s, w)

\* mutant: cipo captured on the falling edge pulse.
SpiShiftCaptureOnNedge(s, p, w) ==
    [p EXCEPT !.tmp = IF SclkNedge(s) = 1
                      THEN Trunc(2 * s.tmp, w) + s.in_bit
                      ELSE p.tmp,
              !.in_bit = IF SclkNedge(s) = 1 THEN s.cipo ELSE p.in_bit]

\* with m.If(sclk_nedge): tmp.eq(Cat(in_bit, tmp[:-1])), after the FSM; and
\* with m.If(sclk_pedge): in_bit.eq(self.pads.cipo).  s is the current state,
\* p the pending next state.
SpiShift(s, p, w) ==
    [p EXCEPT !.tmp = IF SclkNedge(s) = 1
                      THEN Trunc(2 * s.tmp, w) + s.in_bit
                      ELSE p.tmp,
              !.in_bit = IF SclkPedge(s) = 1 THEN s.cipo ELSE p.in_bit]

\* the registers of SPICtrl after one tick: sclk_prev.eq(self.pads.clk), the
\* FSM, then shift and capture.  en, din and cipo keep their levels.
SPICtrlNext(s, w) ==
    SpiShift(s, [SpiFsm(s, w) EXCEPT !.sclk_prev = s.clk], w)

(***************************************************************************)
(* Observations and the common initial state (every signal at its reset    *)
(* value).                                                                 *)
(***************************************************************************)
ObsReset ==
    [seen |-> FALSE, gap |-> 0, v |-> -1, ens |-> 0, samples |-> << >>, xfers |-> 0,
     slots |-> << >>, prev |-> -1, run |-> 0, steps |-> 0, adds |-> 0,
     word |-> 0, toggles |-> 0, since |-> 0]

DemoReset == [ch_sel |-> 0, binary_in |-> 0]

ResetState ==
    /\ timer = TimerReset(AcqN)
    /\ degrees = [adc |-> 0]
    /\ bin2bcd = Binary2BcdReset
    /\ sevenseg = SevenSegReset
    /\ spiadc = SPICtrlReset(Width)
    /\ demo = DemoReset
    /\ debounce = DebounceReset
    /\ obs = ObsReset

(***************************************************************************)
(* Timer on its own.                                                       *)
(***************************************************************************)
\* obs.gap: the number of ticks since the last state in which stb was true.
TimerTick ==
    /\ timer' = TimerNext(timer, AcqN)
    /\ obs' = [obs EXCEPT !.seen = obs.seen \/ timer.stb = 1,
                          !.gap = IF timer.stb = 1 THEN 1 ELSE obs.gap + 1]
    /\ UNCHANGED <<degrees, bin2bcd, sevenseg, spiadc, demo, debounce>>

SpecTimer == ResetState /\ [][TimerTick]_vars /\ WF_vars(TimerTick)

\* C6: once a first pulse was seen, stb is true exactly in the states that lie
\* AcqN ticks after the previous pulse: one pulse in every AcqN ticks.
C6_StbEveryN == obs.seen => (timer.stb = 1 <=> obs.gap = AcqN)

(***************************************************************************)
(* Binary2Bcd on its own.                                                  *)
(***************************************************************************)
BcdInputs == 0 .. Pow2(BcdWidth) - 1

\* levels din may take while en is low, and on a re-trigger.
BcdDinSamples == {0, 682, 1023}

\* the four decimal digits of v, thousands in bits 15..12.
PackedBcd(v) ==
    ((v \div 1000) % 10) * 4096 + ((v \div 100) % 10) * 256
      + ((v \div 10) % 10) * 16 + (v % 10)

\* obs.v: the din of the last tick on which en was high.
BcdObserve == [obs EXCEPT !.v = IF bin2bcd.en = 1 THEN bin2bcd.din ELSE obs.v]

\* the branch of with m.If(~done) that adds 3 is taken on this tick.
BcdAddStep(b) == b.done = 0 /\ Add3(b.tmp_out) /\ b.add_done = 0

\* obs.steps: the ticks with done low since the last en; obs.adds: those of
\* them that took the add-3 branch.
BcdObserveSteps ==
    [BcdObserve EXCEPT
       !.steps = IF bin2bcd.en = 1 /\ bin2bcd.done = 1 THEN 0
                 ELSE IF bin2bcd.done = 0 THEN obs.steps + 1
                 ELSE obs.steps,
       !.adds = IF bin2bcd.en = 1 /\ bin2bcd.done = 1 THEN 0
                ELSE IF BcdAddStep(bin2bcd) THEN obs.adds + 1
                ELSE obs.adds]

\* en is pulsed for one tick, and only into an idle converter.  The first
\* conversion after reset takes any input, a later one a sample (dout keeps
\* the previous result meanwhile, so the inputs of consecutive conversions
\* multiply).
BcdTick ==
    /\ \E e \in {0, 1} :
         \E d \in IF e = 1 /\ obs.v = -1 THEN BcdInputs ELSE BcdDinSamples :
           /\ e = 1 => (bin2bcd.en = 0 /\ Binary2BcdNext(bin2bcd).done = 1)
           /\ bin2bcd' = [Binary2BcdNext(bin2bcd) EXCEPT !.en = e, !.din = d]
    /\ obs' = BcdObserveSteps
    /\ UNCHANGED <<timer, degrees, sevenseg, spiadc, demo, debounce>>

SpecBcd == ResetState /\ [][BcdTick]_vars /\ WF_vars(BcdTick)

\* C1: a conversion started from idle ends (busy leads to done), and on the
\* tick after the converter is done dout holds the packed decimal digits of
\* the input that was latched.
C1_BcdDigits ==
    /\ [][(bin2bcd.done = 1 /\ obs.v >= 0) => bin2bcd.dout' = PackedBcd(obs.v)]_vars
    /\ (bin2bcd.done = 0) ~> (bin2bcd.done = 1)

C1_Witness ==
    bin2bcd.done = 1 /\ obs.v = 1023 /\ bin2bcd.dout = 4131 /\ bin2bcd.cnt = 0

\* C16: a conversion started by one en pulse into an idle converter has done
\* low for BcdWidth + c ticks, c the number of ticks that add 3: while busy
\* the ticks so far are the shifts so far plus the additions so far, a tick
\* that adds 3 is followed by a tick that shifts, and once done the count is
\* BcdWidth + c and at most 2 * BcdWidth.
C16_Latency ==
    /\ [](bin2bcd.done = 0 =>
            /\ obs.steps = (BcdWidth - bin2bcd.cnt) + obs.adds
            /\ obs.adds <= BcdWidth - bin2bcd.cnt)
    /\ []((bin2bcd.done = 1 /\ obs.v >= 0) =>
            /\ obs.steps = BcdWidth + obs.adds
            /\ obs.steps <= 2 * BcdWidth)
    /\ [][(bin2bcd.done = 0 /\ bin2bcd.add_done = 1) =>
            (~BcdAddStep(bin2bcd) /\ bin2bcd.cnt' = bin2bcd.cnt - 1)]_vars

C16_Witness ==
    /\ bin2bcd.done = 1 /\ obs.v = 1023
    /\ obs.adds = 6 /\ obs.steps = 16

\* en and din are free on every tick, en high on at most MaxEn of them
\* (obs.ens counts them).
BcdRetrigTick ==
    /\ \E e \in {0, 1} : \E d \in BcdDinSamples :
         /\ e = 1 => obs.ens < MaxEn
         /\ bin2bcd' = [Binary2BcdNext(bin2bcd) EXCEPT !.en = e, !.din = d]
         /\ obs' = [BcdObserve EXCEPT !.ens = obs.ens + e]
    /\ UNCHANGED <<timer, degrees, sevenseg, spiadc, demo, debounce>>

SpecBcdRetrig == ResetState /\ [][BcdRetrigTick]_vars /\ WF_vars(BcdRetrigTick)

\* C2: en on a tick of an active conversion restarts it: the next state has
\* tmp = din, tmp_out = 0, cnt = 10 and add_done = 0, and the value latched
\* into dout once done is the packed BCD of the last input given with en.
C2_RetriggerRestarts ==
    [][/\ (bin2bcd.done = 0 /\ bin2bcd.en = 1) =>
            /\ bin2bcd.tmp' = bin2bcd.din
            /\ bin2bcd.tmp_out' = 0
            /\ bin2bcd.cnt' = BcdWidth
            /\ bin2bcd.add_done' = 0
       /\ (bin2bcd.done = 1 /\ obs.v >= 0) => bin2bcd.dout' = PackedBcd(obs.v)]_vars

(***************************************************************************)
(* SPICtrl on its own, Width bits wide.                                    *)
(***************************************************************************)
\* 0101..01 in w bits (w odd), the pattern of the sample command words.
RECURSIVE AltWord(_)
AltWord(w) == IF w <= 0 THEN 0 ELSE 4 * AltWord(w - 2) + 1

\* the command words given with en.
SpiWords == {AltWord(Width) % Pow2(Width),
             Pow2(Width) - 1 - (AltWord(Width) % Pow2(Width)),
             Pow2(Width) - 1, 0, 1, Pow2(Width - 1)}

\* the registers of s, with the input levels blanked.
SpiRegs(s) == [s EXCEPT !.en = 0, !.din = 0, !.cipo = 0]

\* the number whose bits are seq, first element in the top bit.
RECURSIVE WordOf(_)
WordOf(seq) ==
    IF seq = << >> THEN 0
    ELSE 2 * WordOf(SubSeq(seq, 1, Len(seq) - 1)) + seq[Len(seq)]

\* obs.samples: the cipo levels on the ticks with sclk_pedge since the last
\* accepted en; obs.xfers: 1 once that transfer is back in IDLE; obs.word:
\* the din of the last accepted en; obs.toggles: the ticks since then on
\* which clk changed; obs.since: the ticks spent in XFER since the last of
\* these or since the en.
SpiObserve(s, n) ==
    [obs EXCEPT
       !.toggles = IF s.fsm = "IDLE" /\ s.en = 1 THEN 0
                   ELSE IF n.clk # s.clk THEN obs.toggles + 1
                   ELSE obs.toggles,
       !.since = IF s.fsm = "IDLE" /\ s.en = 1 THEN 0
                 ELSE IF n.clk # s.clk THEN 0
                 ELSE IF s.fsm = "XFER" THEN obs.since + 1
                 ELSE obs.since,
       !.word = IF s.fsm = "IDLE" /\ s.en = 1 THEN s.din ELSE obs.word,
       !.samples = IF s.fsm = "IDLE" /\ s.en = 1 THEN << >>
                   ELSE IF SclkPedge(s) = 1 THEN Append(obs.samples, s.cipo)
                   ELSE obs.samples,
       !.xfers = IF s.fsm = "IDLE" /\ s.en = 1 THEN 0
                 ELSE IF s.fsm = "XFER" /\ n.fsm = "IDLE" THEN 1
                 ELSE obs.xfers]

\* en, din and cipo are free on every tick (din is read only with en).
SpiTick ==
    /\ \E e \in {0, 1} : \E c \in {0, 1} :
         \E d \in IF e = 1 THEN SpiWords ELSE {0} :
           spiadc' = [SPICtrlNext(spiadc, Width) EXCEPT
                        !.en = e, !.din = d, !.cipo = c]
    /\ obs' = SpiObserve(spiadc, spiadc')
    /\ UNCHANGED <<timer, degrees, bin2bcd, sevenseg, demo, debounce>>

SpecSpi == ResetState /\ [][SpiTick]_vars /\ WF_vars(SpiTick)

\* C3: done is false in every state of XFER and true in every state of IDLE.
C3_DoneIffIdle ==
    /\ spiadc.fsm = "XFER" => SpiDone(spiadc) = 0
    /\ spiadc.fsm = "IDLE" => SpiDone(spiadc) = 1

\* C4: in XFER the registers after the tick are those the tick gives with en
\* low, whatever en and din are; and the FSM leaves IDLE only on a tick with
\* en high, so a request made during the transfer starts nothing later.
C4_EnIgnoredInXfer ==
    [][/\ spiadc.fsm = "XFER" =>
            SpiRegs(spiadc') =
              SpiRegs(SPICtrlNext([spiadc EXCEPT !.en = 0, !.din = 0], Width))
       /\ (spiadc.fsm = "IDLE" /\ spiadc.en = 0) => spiadc.fsm' = "IDLE"]_vars

C4_Witness ==
    /\ spiadc.fsm = "XFER" /\ spiadc.en = 1
    /\ spiadc.din # spiadc.tmp
    /\ spiadc.edge_cnt = Width

\* C5: back in IDLE after a transfer, dout is the Width levels of cipo taken
\* on the sclk_pedge ticks of that transfer, the first in the top bit; and
\* all along in_bit holds the level taken on the last sclk_pedge tick.
C5_DoutIsSamples ==
    /\ (spiadc.fsm = "IDLE" /\ obs.xfers = 1) =>
          /\ Len(obs.samples) = Width
          /\ SpiDout(spiadc) = WordOf(obs.samples)
    /\ obs.samples # << >> => spiadc.in_bit = obs.samples[Len(obs.samples)]

C5_Witness ==
    /\ spiadc.fsm = "IDLE" /\ obs.xfers = 1
    /\ obs.samples = <<1, 0, 1, 1, 0>> \o [i \in 1 .. Width - 5 |-> 1]
    /\ SpiDout(spiadc) # 0

\* C14: on the tick of the k-th sclk_pedge of a transfer (k = 1 .. Width) copi
\* is bit Width - k of the word latched with en; copi changes only on a tick
\* with sclk_nedge or on the tick that latches the word in IDLE; in_bit
\* changes only on a tick with sclk_pedge.
C14_CopiMsbFirst ==
    /\ [](SclkPedge(spiadc) = 1 =>
            /\ Len(obs.samples) < Width
            /\ Copi(spiadc, Width) =
                  Bit(obs.word, Width - (Len(obs.samples) + 1)))
    /\ [][/\ Copi(spiadc', Width) # Copi(spiadc, Width) =>
               (SclkNedge(spiadc) = 1
                  \/ (spiadc.fsm = "IDLE" /\ spiadc.en = 1))
          /\ spiadc.in_bit' # spiadc.in_bit => SclkPedge(spiadc) = 1]_vars

C14_Witness ==
    /\ SclkPedge(spiadc) = 1 /\ Len(obs.samples) = Width - 1
    /\ obs.word = 1 /\ Copi(spiadc, Width) = 1
    /\ spiadc.in_bit = 0

\* C18: in every state with the FSM in IDLE clk is low, cs is deasserted,
\* div is 63 and edge_cnt is 2 * Width.
C18_IdleState ==
    spiadc.fsm = "IDLE" =>
      /\ spiadc.clk = 0 /\ spiadc.cs = 0
      /\ spiadc.div = DivReload /\ spiadc.edge_cnt = 2 * Width

\* the ticks XFER still has to run before the tick that leaves it: the
\* edges left, DivReload + 1 ticks each, and the ticks left on the divider.
XferLeft(s) == s.edge_cnt * (DivReload + 1) + s.div

\* C19: a transfer accepted in IDLE gets back to IDLE (every tick of XFER
\* either leaves it, with no edge left, or lowers XferLeft by one, and the
\* clock always ticks); back in IDLE clk has changed on exactly 2 * Width
\* ticks since the en and is low; in XFER clk changes on every
\* (DivReload + 1)-th tick and on no other, and cs is asserted in every state
\* of XFER.
C19_TransferShape ==
    /\ [][spiadc.fsm = "XFER" =>
            \/ spiadc.fsm' = "IDLE" /\ spiadc.edge_cnt = 0
            \/ /\ spiadc.fsm' = "XFER"
               /\ XferLeft(spiadc') = XferLeft(spiadc) - 1]_vars
    /\ []((spiadc.fsm = "IDLE" /\ obs.xfers = 1) =>
            (obs.toggles = 2 * Width /\ spiadc.clk = 0))
    /\ [](spiadc.fsm = "XFER" => spiadc.cs = 1)
    /\ [][/\ spiadc.fsm = "XFER" =>
               (spiadc.clk' # spiadc.clk <=> obs.since = DivReload)
          /\ spiadc.fsm = "IDLE" => spiadc.clk' = spiadc.clk]_vars

C19_Witness ==
    /\ spiadc.fsm = "IDLE" /\ obs.xfers = 1
    /\ obs.toggles = 2 * Width /\ Len(obs.samples) = Width
    /\ spiadc.cs = 1

(***************************************************************************)
(* Adc2Degrees on its own: a combinational function of adc.                *)
(***************************************************************************)
\* adc steps to its successor or to one of a few levels; obs.prev is the adc
\* of the previous state.
DegreesTick ==
    /\ \E a \in {(degrees.adc + 1) % 1024, 0, DegOffset, 1023} :
         degrees' = [adc |-> a]
    /\ obs' = [obs EXCEPT !.prev = degrees.adc]
    /\ UNCHANGED <<timer, bin2bcd, sevenseg, spiadc, demo, debounce>>

SpecDegrees == ResetState /\ [][DegreesTick]_vars /\ WF_vars(DegreesTick)

\* C8: the output for 82 is 0, and of two inputs a <= b (the previous and the
\* present adc) the output for a is not above the output for b.
C8_Monotonic ==
    /\ Adc2Degrees(DegOffset) = 0
    /\ (obs.prev >= 0 /\ obs.prev <= degrees.adc) =>
           Adc2Degrees(obs.prev) <= Adc2Degrees(degrees.adc)

(***************************************************************************)
(* SevenSegDriver on its own.                                              *)
(***************************************************************************)
\* sixteen packed inputs: digit k of the n-th holds n + k (mod 16), so every
\* digit position takes every nibble value.
SegDins ==
    {((n + 3) % 16) * 4096 + ((n + 2) % 16) * 256 + ((n + 1) % 16) * 16 + n :
        n \in 0 .. 15}

\* the digit-enable lines that are asserted (driven low).
Asserted(s) == {k \in 0 .. 3 : Bit(Enable(s), k) = 0}

\* obs.slots: the lines asserted in each of the last (up to 4) refresh slots,
\* a slot starting on the tick after a strobe.
SegObserve(s, n) ==
    [obs EXCEPT !.slots = IF s.timer.stb = 1
                          THEN IF Len(obs.slots) < 4
                               THEN Append(obs.slots, Asserted(n))
                               ELSE Append(Tail(obs.slots), Asserted(n))
                          ELSE obs.slots]

SevenSegTick ==
    /\ \E d \in SegDins : sevenseg' = [SevenSegNext(sevenseg) EXCEPT !.din = d]
    /\ obs' = SegObserve(sevenseg, sevenseg')
    /\ UNCHANGED <<timer, degrees, bin2bcd, spiadc, demo, debounce>>

SpecSevenSeg == ResetState /\ [][SevenSegTick]_vars /\ WF_vars(SevenSegTick)

\* C9: a strobe advances digit_sel by one modulo 4 (and nothing else changes
\* it); in every state exactly the line of digit_sel is asserted; and the last
\* four refresh slots assert four different single lines.
C9_Scan ==
    /\ [](/\ Asserted(sevenseg) = {sevenseg.digit_sel}
          /\ Len(obs.slots) = 4 =>
               /\ \A i \in 1 .. 4 : Cardinality(obs.slots[i]) = 1
               /\ \A k \in 0 .. 3 :
                    Cardinality({i \in 1 .. 4 : k \in obs.slots[i]}) = 1)
    /\ [][sevenseg.digit_sel' =
            IF sevenseg.timer.stb = 1
            THEN (sevenseg.digit_sel + 1) % 4
            ELSE sevenseg.digit_sel]_vars

C9_Witness ==
    /\ Len(obs.slots) = 4 /\ obs.slots[4] = {0} /\ obs.slots[1] = {1}
    /\ sevenseg.digit_sel = 0 /\ Enable(sevenseg) = 14

\* the segment lines a .. dp read as a number, a in the top bit.
PadsWord(p) ==
    128 * p.a + 64 * p.b + 32 * p.c + 16 * p.d
      + 8 * p.e + 4 * p.f + 2 * p.g + p.dp

\* C10: the segment lines show the table entry of the nibble of din that
\* digit_sel selects, and that entry exists for every nibble value.
C10_Segments ==
    LET n == (sevenseg.din \div (16 ^ sevenseg.digit_sel)) % 16
    IN  /\ n + 1 \in DOMAIN SegPatterns
        /\ PadsWord(SegPads(sevenseg)) = SegPatterns[n + 1]
        /\ PadsWord(SegPads(sevenseg)) # 0

C10_Witness ==
    /\ sevenseg.digit_sel = 3 /\ sevenseg.din \div 4096 = 15
    /\ SegPads(sevenseg) =
         [a |-> 1, b |-> 0, c |-> 0, d |-> 0, e |-> 1, f |-> 1, g |-> 1, dp |-> 0]

(***************************************************************************)
(* BaseboardDemo: the acquisition Timer, SPICtrl(24), Adc2Degrees,         *)
(* Binary2Bcd and SevenSegDriver on one clock.                             *)
(***************************************************************************)
\* spi_word: Cat(C(0, 8), C(0, 4), ch_sel, C(1, 1), C(1, 1), C(0, 7))
SpiWord(ch_sel) == ch_sel * Pow2(12) + Pow2(15) + Pow2(16)

\* mutant: the transformed path is taken whenever switch 1 is on.
BcdDinMuxBit1(ch_sel, binary_in) ==
    IF Bit(ch_sel, 1) = 1 THEN Adc2Degrees(binary_in) ELSE binary_in

\* with m.Switch(ch_sel): the value driven onto bin2bcd.din.
BcdDinMux(ch_sel, binary_in) ==
    IF ch_sel = 2 THEN Adc2Degrees(binary_in) ELSE binary_in

\* mutant: the sequencer goes by done alone.
FireOnDone(sp, tm) == SpiDone(sp) = 1

\* with m.If(spiadc.done & self.timer.stb)
Fire(sp, tm) == SpiDone(sp) = 1 /\ tm.stb = 1

\* mutant: the enables lack their default eq(0) and keep their value.
DemoEnSticky(sp, tm) == IF Fire(sp, tm) THEN 1 ELSE sp.en

\* spiadc.en and bin2bcd.en: eq(0), overridden by eq(1) when the If holds.
DemoEnNext(sp, tm) == IF Fire(sp, tm) THEN 1 ELSE 0

\* binary_in.eq(spiadc.dout): the 24-bit dout cut to the 10 bits of binary_in.
BinaryInNext(sp, tm, binary_in) ==
    IF Fire(sp, tm) THEN Trunc(SpiDout(sp), 10) ELSE binary_in

\* the switches and the cipo pin: levels that may change on a tick with the
\* acquisition strobe and hold otherwise.
ChSels == {0, 2}

DemoInit ==
    /\ \E ch \in ChSels : \E c \in {0, 1} :
         /\ demo = [ch_sel |-> ch, binary_in |-> 0]
         /\ spiadc = [SPICtrlReset(DemoWidth) EXCEPT
                        !.din = SpiWord(ch), !.cipo = c]
         /\ bin2bcd = [Binary2BcdReset EXCEPT !.din = BcdDinMux(ch, 0)]
    /\ timer = TimerReset(AcqN)
    /\ degrees = [adc |-> 0]
    /\ sevenseg = SevenSegReset
    /\ debounce = DebounceReset
    /\ obs = ObsReset

DemoTick ==
    \E ch \in IF timer.stb = 1 THEN ChSels ELSE {demo.ch_sel} :
      \E c \in IF timer.stb = 1 THEN {0, 1} ELSE {spiadc.cipo} :
        LET en == DemoEnNext(spiadc, timer)
            bi == BinaryInNext(spiadc, timer, demo.binary_in)
            bcd == Binary2BcdNext(bin2bcd)
        IN  /\ timer' = TimerNext(timer, AcqN)
            /\ demo' = [ch_sel |-> ch, binary_in |-> bi]
            /\ degrees' = [adc |-> bi]
            /\ spiadc' = [SPICtrlNext(spiadc, DemoWidth) EXCEPT
                            !.en = en, !.din = SpiWord(ch), !.cipo = c]
            /\ bin2bcd' = [bcd EXCEPT !.en = en, !.din = BcdDinMux(ch, bi)]
            /\ sevenseg' = [SevenSegNext(sevenseg) EXCEPT !.din = bcd.dout]
            /\ UNCHANGED <<debounce, obs>>

SpecDemo == DemoInit /\ [][DemoTick]_vars /\ WF_vars(DemoTick)

\* C7: after a tick with done and stb both true binary_in is the low 10 bits
\* of dout and both enables are high; after any other tick both enables are
\* low; so an enable that is high is low again one tick later.
C7_Sequencer ==
    [][/\ (SpiDone(spiadc) = 1 /\ timer.stb = 1) =>
            /\ demo.binary_in' = SpiDout(spiadc) % 1024
            /\ spiadc.en' = 1 /\ bin2bcd.en' = 1
       /\ ~(SpiDone(spiadc) = 1 /\ timer.stb = 1) =>
            (spiadc.en' = 0 /\ bin2bcd.en' = 0)
       /\ spiadc.en = 1 => spiadc.en' = 0
       /\ bin2bcd.en = 1 => bin2bcd.en' = 0
       /\ bin2bcd.en' = 1 => bin2bcd.din' = BcdDinMux(demo.ch_sel', demo.binary_in')]_vars

C7_Witness ==
    /\ spiadc.en = 1 /\ bin2bcd.en = 1
    /\ SpiDout(spiadc) = Pow2(DemoWidth) - 1
    /\ demo.binary_in = 1023

\* C20: with the acquisition period (AcqN + 1 ticks) longer than a transfer
\* (2 * DemoWidth * (DivReload + 1) + 1 ticks in XFER) and than a conversion
\* (at most 2 * BcdWidth ticks), in every state with spiadc.en or bin2bcd.en
\* high the FSM of SPICtrl is in IDLE and the converter is done, and so it is
\* on the tick that latches binary_in; its cs and clk are low by then, the
\* response word being shifted in full.
C20_EnOnlyWhenIdle ==
    /\ AcqN + 1 > 2 * DemoWidth * (DivReload + 1) + 1
    /\ AcqN + 1 > 2 * BcdWidth
    /\ (spiadc.en = 1 \/ bin2bcd.en = 1 \/ Fire(spiadc, timer)) =>
          /\ spiadc.fsm = "IDLE" /\ spiadc.cs = 0 /\ spiadc.clk = 0
          /\ SclkNedge(spiadc) = 0
          /\ bin2bcd.done = 1

C20_Witness ==
    /\ spiadc.en = 1 /\ bin2bcd.en = 1
    /\ spiadc.fsm = "IDLE" /\ bin2bcd.done = 1
    /\ demo.binary_in = 1023 /\ bin2bcd.dout = 4131

\* C17: dout keeps its value on every tick with the converter busy; it
\* changes only on a tick with done high and cnt at 0, and then to tmp_out;
\* and sevenseg.din shows dout.
C17_DoutStable ==
    /\ [](sevenseg.din = bin2bcd.dout)
    /\ [][/\ bin2bcd.done = 0 => bin2bcd.dout' = bin2bcd.dout
          /\ bin2bcd.dout' # bin2bcd.dout =>
               /\ bin2bcd.done = 1 /\ bin2bcd.cnt = 0
               /\ bin2bcd.dout' = bin2bcd.tmp_out]_vars

C17_Witness ==
    /\ bin2bcd.done = 0 /\ bin2bcd.dout = 4131 /\ sevenseg.din = 4131
    /\ bin2bcd.tmp_out # 0 /\ bin2bcd.tmp_out # bin2bcd.dout

(***************************************************************************)
(* The channel mux of BaseboardDemo on its own: combinational in the three *)
(* switches and binary_in.                                                 *)
(***************************************************************************)
\* ch_sel = Cat of the three switches; binary_in = Signal(10).
Switches == 0 .. 7

Samples == 0 .. 1023

MuxInit ==
    /\ \E ch \in Switches : \E bi \in Samples :
         /\ demo = [ch_sel |-> ch, binary_in |-> bi]
         /\ degrees = [adc |-> bi]
         /\ bin2bcd = [Binary2BcdReset EXCEPT !.din = BcdDinMux(ch, bi)]
    /\ timer = TimerReset(AcqN)
    /\ spiadc = SPICtrlReset(Width)
    /\ sevenseg = SevenSegReset
    /\ debounce = DebounceReset
    /\ obs = ObsReset

\* the switches move to any setting and binary_in to its successor or to one
\* of a few levels; degrees.adc and bin2bcd.din follow in the same tick.
MuxTick ==
    /\ \E ch \in Switches :
         \E bi \in {(demo.binary_in + 1) % 1024, 0, DegOffset, 1023} :
           /\ demo' = [ch_sel |-> ch, binary_in |-> bi]
           /\ degrees' = [adc |-> bi]
           /\ bin2bcd' = [bin2bcd EXCEPT !.din = BcdDinMux(ch, bi)]
    /\ UNCHANGED <<timer, sevenseg, spiadc, debounce, obs>>

SpecMux == MuxInit /\ [][MuxTick]_vars /\ WF_vars(MuxTick)

\* C15: bin2bcd.din is the output of Adc2Degrees (fed with binary_in) when
\* the three switches read 2, and binary_in itself for each of the other
\* seven settings.
C15_ChannelMux ==
    /\ demo.ch_sel \in 0 .. 7
    /\ degrees.adc = demo.binary_in
    /\ demo.ch_sel = 2 => bin2bcd.din = Adc2Degrees(degrees.adc)
    /\ demo.ch_sel \in {0, 1, 3, 4, 5, 6, 7} => bin2bcd.din = demo.binary_in

C15_Witness ==
    /\ demo.ch_sel = 2 /\ demo.binary_in = 500
    /\ bin2bcd.din = 104

(***************************************************************************)
(* Debounce on its own.                                                    *)
(***************************************************************************)
\* obs.run: the number of ticks, up to the last one, in an unbroken row on
\* which button_sync differed from out, for the present value of out.
DebounceObserve(d, n) ==
    [obs EXCEPT !.run = IF n.last_state # d.last_state THEN 0
                        ELSE IF d.button_sync # d.last_state THEN obs.run + 1
                        ELSE 0]

\* the button is free on every tick.
DebounceTick ==
    /\ \E b \in {0, 1} : debounce' = [DebounceNext(debounce) EXCEPT !.button = b]
    /\ obs' = DebounceObserve(debounce, debounce')
    /\ UNCHANGED <<timer, degrees, bin2bcd, sevenseg, spiadc, demo>>

SpecDebounce == ResetState /\ [][DebounceTick]_vars /\ WF_vars(DebounceTick)

\* C11: as long as button_sync has differed from out for fewer ticks in a row
\* than the counter's maximum, neither strobe is true and out keeps its value.
C11_GlitchRejected ==
    /\ [](obs.run < DebounceMax =>
            (UpStb(debounce) = 0 /\ DownStb(debounce) = 0))
    /\ [][obs.run < DebounceMax =>
            DebounceOut(debounce') = DebounceOut(debounce)]_vars

\* C12: up_stb is true exactly on the ticks on which out goes from 0 to 1, and
\* down_stb exactly on the ticks on which out goes from 1 to 0.
C12_StrobeIffFlip ==
    [][/\ UpStb(debounce) = 1 <=>
            (DebounceOut(debounce) = 0 /\ DebounceOut(debounce') = 1)
       /\ DownStb(debounce) = 1 <=>
            (DebounceOut(debounce) = 1 /\ DebounceOut(debounce') = 0)]_vars

\* C13: out changes only on a tick on which button_sync differs from it and
\* has done so on each of the DebounceMax ticks before; cnt is the length of
\* that row of ticks, and a tick on which button_sync equals out clears it.
C13_StableUntilFullRun ==
    /\ [](debounce.cnt = obs.run)
    /\ [][/\ DebounceOut(debounce') # DebounceOut(debounce) =>
               (obs.run = DebounceMax
                  /\ debounce.button_sync # DebounceOut(debounce))
          /\ debounce.button_sync = DebounceOut(debounce) =>
               debounce.cnt' = 0]_vars

C13_Witness ==
    /\ DebounceOut(debounce) = 1 /\ debounce.button_sync = 1
    /\ debounce.cnt = 0 /\ obs.run = 0

====
